---- MODULE Spec2Model ----
(***************************************************************************)
(* Model of the external-scanner keystroke interpreter, the React hook     *)
(* useBarcodeScanner (hooks/useBarcodeScanner), as the Scan page uses it.  *)
(*                                                                         *)
(* React state is modelled at the granularity React gives it: a state      *)
(* setter queues an update (stateListening), a later render commits it     *)
(* (isListening), and the passive effect of that render (attach / detach   *)
(* of the window keydown listener) runs after the commit.  Refs            *)
(* (bufferRef, timeoutRef) are written synchronously.  Native keydown      *)
(* events and timer callbacks are tasks of the same event loop and may     *)
(* run between any two of those steps.                                     *)
(*                                                                         *)
(* Time is discrete.  A timer callback runs when its delay has elapsed,    *)
(* and a key event that arrives at that same instant is dispatched after   *)
(* it.  Handlers take no time.                                             *)
(***************************************************************************)
EXTENDS Integers, Sequences, FiniteSets

VARIABLES
    scannedCode,      \* useState("") : the last emitted code
    stateListening,   \* useState(false): value held by the update queue
    isListening,      \* useState(false): value seen by the latest render
    bufferRef,        \* useRef("")   : pending characters
    timeoutRef,       \* useRef(null) : handle of the last timer created
    timers,           \* live timers of the event loop: handle -> ms left
    onScan,           \* identity of the onScan argument at the latest render
    listeners,        \* keydown listeners on window (handler identities)
    effectDeps,       \* [isListening, handleKeyDown] of the last effect run
    mounted,          \* the host component (the Scan page) is mounted
    sinceKey,         \* history: ms since the handler last accepted a key
    stale,            \* history: pending outlived a gap above the threshold
    bufOld,           \* history: pending holds a character from before a stop
    burst,            \* history: alphanumeric keys of the current burst
    burstOk,          \* history: the burst is one the concatenation law covers
    dropped,          \* history: a stop discarded a partial buffer
    mix,              \* history: the burst seen as one with dropped keys
    evt,              \* history: the last step and the event it handled
    out               \* history: what the last step emitted, and from what

scanVars == <<scannedCode, stateListening, isListening, bufferRef, timeoutRef,
              timers, onScan, listeners, effectDeps, mounted, sinceKey, stale,
              bufOld, burst, burstOk, dropped, mix, evt, out>>

VARIABLES
    authUser,         \* AuthProvider useState<User | null>(null)
    authLoading,      \* AuthProvider useState(true)
    localStore,       \* localStorage[STORAGE_KEY]   ("" when absent)
    sessionStore,     \* sessionStorage[STORAGE_KEY] ("" when absent)
    authEvt,          \* the last auth step taken, with its arguments
    authLast          \* history: the user of the most recent login, or
                      \* no user after logout; not valid once the browser
                      \* session has ended

authVars == <<authUser, authLoading, localStore, sessionStore, authEvt,
              authLast>>

VARIABLES
    cameraActive,     \* Scan useState(false): latest value of cameraActive
    camIsActive,      \* isActive prop of CameraScanner at the latest render
    pageDirty,        \* Scan has a state update that is not rendered yet
    inventoryVer,     \* Scan useState([]): which inventory array is held
    handleScanVer,    \* inventory closed over by handleScan at the render
    selectedItem,     \* Scan useState(null): material code, 0 for null
    camEffectPending, \* the CameraScanner effect has new deps to run on
    camEffectRan,     \* the effect ran before, so a cleanup is registered
    scannerRef,       \* useRef(null): index into scanners, 0 for null
    scanners,         \* every Html5Qrcode instance created so far
    camError,         \* CameraScanner useState(""): the error shown
    camEvt            \* the last camera step taken

camVars == <<cameraActive, camIsActive, pageDirty, inventoryVer,
             handleScanVer, selectedItem, camEffectPending, camEffectRan,
             scannerRef, scanners, camError, camEvt>>

(* The camera variables that the scan-and-process form does not touch. *)
camOnlyVars == <<cameraActive, camIsActive, pageDirty, handleScanVer,
                 camEffectPending, camEffectRan, scannerRef, scanners,
                 camError, camEvt>>

VARIABLES
    knownQty,         \* item_quantity of selectedItem (NoQty when missing)
    amount,           \* Scan useState(""): the text of the amount input
    scanMode,         \* Scan useState("in")
    isProcessing,     \* Scan useState(false)
    request,          \* the scan-in/scan-out call in flight, if any
    lateScan,         \* history: item picked by a scan while a call is
                      \* in flight
    procEvt           \* the last step of the form

procVars == <<knownQty, amount, scanMode, isProcessing, request, lateScan,
              procEvt>>

VARIABLES
    hooks,            \* the state and refs of each useBarcodeScanner call
    pairTimers,       \* live timers of the shared event loop
    pairEvt           \* the last step taken with two interpreters

pairVars == <<hooks, pairTimers, pairEvt>>

vars == <<scanVars, authVars, camVars, procVars, pairVars>>

histVars == <<sinceKey, stale, bufOld, burst, burstOk, dropped, mix>>

hookVars == <<scannedCode, stateListening, isListening, bufferRef, timeoutRef,
              timers, onScan, listeners, effectDeps, mounted>>

----------------------------------------------------------------------------
(* Bounds of the exploration. *)

MaxBuf == 2

(* Program constants. *)

FlushDelay == 100

(* Granularity of the clock: time passes in steps of half the flush delay. *)
TickStep == FlushDelay \div 2

NoTimer == 0
Undefined == 0

Late == FlushDelay + TickStep

Min(a, b) == IF a <= b THEN a ELSE b

----------------------------------------------------------------------------
(* Keys and event targets.  A key is the string event.key, held as its     *)
(* sequence of characters.                                                 *)

Digits == {"0", "1", "2", "3", "4", "5", "6", "7", "8", "9"}

Lower == {"a", "b", "c", "d", "e", "f", "g", "h", "i", "j", "k", "l", "m",
          "n", "o", "p", "q", "r", "s", "t", "u", "v", "w", "x", "y", "z"}

Upper == {"A", "B", "C", "D", "E", "F", "G", "H", "I", "J", "K", "L", "M",
          "N", "O", "P", "Q", "R", "S", "T", "U", "V", "W", "X", "Y", "Z"}

AlnumClass == Lower \cup Upper \cup Digits

EnterKey == <<"E", "n", "t", "e", "r">>

Keys == { <<"a">>, <<"7">>, <<"-">>, <<"S", "h", "i", "f", "t">>, EnterKey }

Targets == { [tagName |-> "BODY",     isContentEditable |-> FALSE],
             [tagName |-> "INPUT",    isContentEditable |-> FALSE],
             [tagName |-> "TEXTAREA", isContentEditable |-> FALSE],
             [tagName |-> "DIV",      isContentEditable |-> TRUE] }

OnScanIds == {Undefined, 1, 2}

NoTarget == [tagName |-> "", isContentEditable |-> FALSE]

Step(type) == [type |-> type, target |-> NoTarget]

(* The report of a step that emitted nothing. *)
NoCall == [emitted |-> FALSE, called |-> FALSE, code |-> <<>>,
           burst |-> <<>>, covered |-> FALSE, stale |-> FALSE,
           late |-> FALSE, old |-> FALSE, afterDrop |-> FALSE,
           rearmed |-> FALSE, coveredMixed |-> FALSE, inside |-> FALSE,
           nonAlnum |-> FALSE]

(* The contract's notion of a key that belongs to a code: one ASCII letter *)
(* or digit.                                                               *)
SingleAlnum(key) ==
    /\ Len(key) = 1
    /\ key[1] \in Lower \cup Upper \cup Digits

----------------------------------------------------------------------------
(* Pure helpers of handleKeyDown. *)

IsEditableTarget_NoTextarea(target) ==
    \/ target.tagName = "INPUT"
    \/ target.isContentEditable

IsEditableTarget(target) ==
    \/ target.tagName = "INPUT"
    \/ target.tagName = "TEXTAREA"
    \/ target.isContentEditable

RegexTest(key) == \E i \in 1..Len(key) : key[i] \in AlnumClass

IsAlnumKey_AnyChar(key) == Len(key) = 1

IsAlnumKey_RegexOnly(key) == RegexTest(key)

IsAlnumKey(key) == Len(key) = 1 /\ RegexTest(key)

ClearTimeout(ts, handle) ==
    [h \in (DOMAIN ts) \ {handle} |-> ts[h]]

ClearIfSet(ts, handle) ==
    IF handle # NoTimer THEN ClearTimeout(ts, handle) ELSE ts

FreshHandle(ts) ==
    CHOOSE h \in 1..(Cardinality(DOMAIN ts) + 1) : h \notin DOMAIN ts

SetTimeout(ts, delay) ==
    [h \in (DOMAIN ts) \cup {FreshHandle(ts)} |->
        IF h \in DOMAIN ts THEN ts[h] ELSE delay]

HandlerClear_Skip(ts, handle) == ts

HandlerClear(ts, handle) == ClearIfSet(ts, handle)

CleanupTimers_Skip(ts, handle) == ts

CleanupTimers(ts, handle) == ClearIfSet(ts, handle)

Rearm_AlnumOnly(ts, key) ==
    IF IsAlnumKey(key) THEN SetTimeout(ts, FlushDelay) ELSE ts

Rearm(ts, key) == SetTimeout(ts, FlushDelay)

EmittedCode_WithEnter(buf) == buf \o <<"E", "n", "t", "e", "r">>

EmittedCode(buf) == buf

EnterEmits_Always(buf) == TRUE

EnterEmits(buf) == Len(buf) > 0

AppendKey_Prepend(buf, key) == key \o buf

AppendKey(buf, key) == buf \o key

StopBuffer_Keep(buf) == buf

StopBuffer(buf) == <<>>

NoTimerDue == \A h \in DOMAIN timers : timers[h] > 0

----------------------------------------------------------------------------
(* The auth provider (AuthContext.tsx).                                    *)
NumUsers == 3

Roles == {"admin", "user"}

Users == {[user_id |-> i, username |-> i, role |-> r] :
              i \in 1..NumUsers, r \in Roles}

NoUser == [user_id |-> 0, username |-> 0, role |-> ""]

NoItem == <<>>

(* JSON.stringify / JSON.parse of a User, as a sequence of tokens. *)
JSONStringify(u) ==
    <<"user_id", u.user_id, "username", u.username, "role", u.role>>

CanParse(str) == Len(str) = 6 /\ str[1] = "user_id"

JSONParse(str) == [user_id |-> str[2], username |-> str[4], role |-> str[6]]

AuthStep(type, u, remember) ==
    [type |-> type, user |-> u, remember |-> remember]

(* The camera scanner (CameraScanner.tsx) on the Scan page.                *)
MaxScanners == 2

MaxFetch == 1

NumItems == 1

NoScanner == 0

NoItemSelected == 0

(* Decoded texts: the material codes of the inventory, and 0 for a code    *)
(* that no item carries.                                                   *)
Codes == 0..NumItems

CamStep(type, s, cb, text) ==
    [type |-> type, scanner |-> s, cb |-> cb, text |-> text]

(* The scan-and-process form of the Scan page (part_001).                  *)
MaxQty == 2

NoQty == -1

Quantities == {NoQty} \cup 0..MaxQty

(* Texts the amount input can hold. *)
AmountInputs == { <<>>, <<"0">>, <<"1">>, <<"2">>, <<"3">>, <<"-", "1">>,
                  <<"1", ".", "5">>, <<"2", "e", "1">> }

DigitSeq == <<"0", "1", "2", "3", "4", "5", "6", "7", "8", "9">>

DigitValue(c) == (CHOOSE n \in 1..10 : DigitSeq[n] = c) - 1

(* How many leading characters of str, from position i, are digits. *)
RECURSIVE DigitRun(_, _)
DigitRun(str, i) ==
    IF i <= Len(str) /\ str[i] \in Digits
      THEN 1 + DigitRun(str, i + 1)
      ELSE 0

RECURSIVE DigitsValue(_, _, _)
DigitsValue(str, i, n) ==
    IF n = 0 THEN 0
    ELSE 10 * DigitsValue(str, i, n - 1) + DigitValue(str[i + n - 1])

(* parseInt(str): an optional sign, then the longest run of digits; NaN    *)
(* when there is no digit.                                                 *)
ParseInt(str) ==
    LET signed == Len(str) >= 1 /\ str[1] \in {"-", "+"}
        first  == IF signed THEN 2 ELSE 1
        n      == DigitRun(str, first)
        mag    == DigitsValue(str, first, n)
    IN  [nan |-> n = 0,
         val |-> IF signed /\ str[1] = "-" THEN 0 - mag ELSE mag]

QtyOrZero(q) == IF q = NoQty THEN 0 ELSE q

NoRequest == [phase |-> "none", mode |-> "", amount |-> 0, item |-> 0]

ProcStep(type, late) == [type |-> type, late |-> late]

(* Two interpreters alive at the same time (the hook called by two hosts). *)
Instances == {1, 2}

PairKeys == { <<"a">>, EnterKey }

PairTargets == {t \in Targets : t.tagName \in {"BODY", "INPUT"}}

PairStep(type, i) == [type |-> type, inst |-> i]

ScanInit ==
    /\ scannedCode = <<>>
    /\ stateListening = FALSE
    /\ isListening = FALSE
    /\ bufferRef = <<>>
    /\ timeoutRef = NoTimer
    /\ timers = << >>
    /\ onScan \in OnScanIds \ {2}
    /\ listeners = {}
    /\ effectDeps = <<FALSE, onScan>>
    /\ mounted = TRUE
    /\ mix = "clean"
    /\ sinceKey = Late
    /\ stale = FALSE
    /\ bufOld = FALSE
    /\ burst = <<>>
    /\ burstOk = TRUE
    /\ dropped = FALSE
    /\ evt = Step("init")
    /\ out = NoCall

(* The auth provider before its mount effect has run, on empty storage. *)
AuthInit ==
    /\ authUser = NoUser
    /\ authLoading = TRUE
    /\ localStore = NoItem
    /\ sessionStore = NoItem
    /\ authEvt = AuthStep("init", NoUser, FALSE)
    /\ authLast = [user |-> NoUser, valid |-> TRUE]

(* The Scan page with its CameraScanner before the first effects run. *)
CameraInit ==
    /\ cameraActive = FALSE
    /\ camIsActive = FALSE
    /\ pageDirty = FALSE
    /\ inventoryVer = 0
    /\ handleScanVer = 0
    /\ selectedItem = NoItemSelected
    /\ camEffectPending = TRUE
    /\ camEffectRan = FALSE
    /\ scannerRef = NoScanner
    /\ scanners = <<>>
    /\ camError = ""
    /\ camEvt = CamStep("init", NoScanner, 0, 0)

(* The form of the Scan page before anything was scanned. *)
ProcessInit ==
    /\ knownQty = NoQty
    /\ amount = <<>>
    /\ scanMode = "in"
    /\ isProcessing = FALSE
    /\ request = NoRequest
    /\ lateScan = NoItemSelected
    /\ procEvt = ProcStep("init", NoItemSelected)

(* Two interpreters right after both hosts called the hook. *)
PairInit ==
    /\ hooks = [i \in Instances |->
                  [scannedCode |-> <<>>, isListening |-> FALSE,
                   attached |-> FALSE, bufferRef |-> <<>>,
                   timeoutRef |-> NoTimer]]
    /\ pairTimers = << >>
    /\ pairEvt = PairStep("init", 0)

Init == ScanInit /\ AuthInit /\ CameraInit /\ ProcessInit /\ PairInit

----------------------------------------------------------------------------
(* The interpreter counts as active while the rendered state and the       *)
(* queued state both say so.                                               *)
Active == isListening /\ stateListening

EffectsFlushed == effectDeps = <<isListening, onScan>>

(* handleKeyDown, as attached with the onScan identity h it closed over. *)
HandleKeyDown(key, target, h) ==
    IF IsEditableTarget(target)
    THEN /\ evt' = [type |-> "keyIgnored", target |-> target]
         /\ out' = NoCall
         /\ UNCHANGED <<hookVars, histVars>>
    ELSE LET cleared == HandlerClear(timers, timeoutRef) IN
         IF key = EnterKey
         THEN /\ IF EnterEmits(bufferRef)
                 THEN /\ scannedCode' = EmittedCode(bufferRef)
                      /\ bufferRef' = <<>>
                      /\ dropped' = FALSE
                 ELSE UNCHANGED <<scannedCode, bufferRef, dropped>>
              /\ out' = [emitted   |-> EnterEmits(bufferRef),
                         called    |-> EnterEmits(bufferRef) /\ h # Undefined,
                         code      |-> IF EnterEmits(bufferRef)
                                       THEN EmittedCode(bufferRef)
                                       ELSE <<>>,
                         burst     |-> burst,
                         covered   |-> /\ burstOk
                                       /\ burst # <<>>
                                       /\ Active
                                       /\ sinceKey < FlushDelay,
                         stale     |-> stale,
                         late      |-> sinceKey >= FlushDelay,
                         old       |-> bufOld,
                         afterDrop |-> dropped,
                         rearmed   |-> FALSE,
                         coveredMixed |-> /\ mix # "broken"
                                          /\ burst # <<>>
                                          /\ Active
                                          /\ sinceKey < FlushDelay,
                         inside    |-> mix = "inside",
                         nonAlnum  |-> FALSE]
              /\ timers' = cleared
              /\ sinceKey' = 0
              /\ stale' = IF bufferRef' = <<>> THEN FALSE ELSE stale
              /\ bufOld' = IF bufferRef' = <<>> THEN FALSE ELSE bufOld
              /\ burst' = <<>>
              /\ burstOk' = TRUE
              /\ mix' = "clean"
              /\ evt' = [type |-> "keyEnter", target |-> target]
              /\ UNCHANGED <<stateListening, isListening, timeoutRef, onScan,
                             listeners, effectDeps, mounted>>
         ELSE /\ IsAlnumKey(key) => Len(bufferRef) < MaxBuf
              /\ bufferRef' = IF IsAlnumKey(key)
                                THEN AppendKey(bufferRef, key)
                                ELSE bufferRef
              /\ timers' = Rearm(cleared, key)
              /\ timeoutRef' = FreshHandle(cleared)
              /\ sinceKey' = 0
              /\ burst' = IF SingleAlnum(key) THEN burst \o key ELSE burst
              /\ burstOk' = /\ burstOk
                             /\ SingleAlnum(key)
                             /\ Active
                             /\ (burst = <<>> \/ sinceKey < FlushDelay)
              /\ mix' = IF \/ mix = "broken"
                           \/ ~Active
                           \/ (burst # <<>> /\ sinceKey >= FlushDelay)
                        THEN "broken"
                        ELSE IF ~SingleAlnum(key) /\ burst # <<>>
                             THEN "inside"
                             ELSE mix
              /\ evt' = [type   |-> IF bufferRef' # bufferRef
                                     THEN "keyChar" ELSE "keyOther",
                         target |-> target]
              /\ out' = [NoCall EXCEPT
                            !.rearmed = timeoutRef \in DOMAIN timers,
                            !.nonAlnum = ~SingleAlnum(key)]
              /\ UNCHANGED <<scannedCode, stateListening, isListening, onScan,
                             listeners, effectDeps, mounted, stale, bufOld,
                             dropped>>

(* A keydown event on window: dispatched to the attached listener. *)
KeyDown(key, target) ==
    /\ NoTimerDue
    /\ \E h \in listeners : HandleKeyDown(key, target, h)

TimerFire_Stops(h) ==
    /\ h \in DOMAIN timers
    /\ timers[h] = 0
    /\ bufferRef' = <<>>
    /\ stateListening' = FALSE
    /\ timers' = ClearTimeout(timers, h)
    /\ stale' = FALSE
    /\ bufOld' = FALSE
    /\ burst' = <<>>
    /\ burstOk' = TRUE
    /\ mix' = "clean"
    /\ evt' = Step("fire")
    /\ out' = NoCall
    /\ UNCHANGED <<scannedCode, isListening, timeoutRef, onScan, listeners,
                   effectDeps, mounted, sinceKey, dropped>>

TimerFire_ClearsCode(h) ==
    /\ h \in DOMAIN timers
    /\ timers[h] = 0
    /\ bufferRef' = <<>>
    /\ scannedCode' = <<>>
    /\ timers' = ClearTimeout(timers, h)
    /\ stale' = FALSE
    /\ bufOld' = FALSE
    /\ burst' = <<>>
    /\ burstOk' = TRUE
    /\ mix' = "clean"
    /\ evt' = Step("fire")
    /\ out' = NoCall
    /\ UNCHANGED <<stateListening, isListening, timeoutRef, onScan, listeners,
                   effectDeps, mounted, sinceKey, dropped>>

(* The flush callback of timer handle h. *)
TimerFire(h) ==
    /\ h \in DOMAIN timers
    /\ timers[h] = 0
    /\ bufferRef' = <<>>
    /\ timers' = ClearTimeout(timers, h)
    /\ stale' = FALSE
    /\ bufOld' = FALSE
    /\ burst' = <<>>
    /\ burstOk' = TRUE
    /\ mix' = "clean"
    /\ evt' = Step("fire")
    /\ out' = NoCall
    /\ UNCHANGED <<scannedCode, stateListening, isListening, timeoutRef,
                   onScan, listeners, effectDeps, mounted, sinceKey, dropped>>

StartListening_ResetsBuffer ==
    /\ stateListening' = TRUE
    /\ bufferRef' = <<>>
    /\ evt' = Step(IF stateListening THEN "startAgain" ELSE "start")
    /\ out' = NoCall
    /\ UNCHANGED <<scannedCode, isListening, timeoutRef, timers, onScan,
                   listeners, effectDeps, mounted, histVars>>

StartListening ==
    /\ stateListening' = TRUE
    /\ evt' = Step(IF stateListening THEN "startAgain" ELSE "start")
    /\ out' = NoCall
    /\ UNCHANGED <<scannedCode, isListening, bufferRef, timeoutRef, timers,
                   onScan, listeners, effectDeps, mounted, histVars>>

StopListening ==
    /\ stateListening' = FALSE
    /\ bufferRef' = StopBuffer(bufferRef)
    /\ timers' = ClearIfSet(timers, timeoutRef)
    /\ stale' = IF bufferRef' = <<>> THEN FALSE ELSE stale
    /\ bufOld' = (bufferRef' # <<>>)
    /\ burst' = <<>>
    /\ burstOk' = TRUE
    /\ dropped' = (dropped \/ bufferRef # <<>>)
    /\ mix' = "clean"
    /\ evt' = Step("stop")
    /\ out' = NoCall
    /\ UNCHANGED <<scannedCode, isListening, timeoutRef, onScan, listeners,
                   effectDeps, mounted, sinceKey>>

ClearCode_ResetsBuffer ==
    /\ scannedCode' = <<>>
    /\ bufferRef' = <<>>
    /\ evt' = Step("clear")
    /\ out' = NoCall
    /\ UNCHANGED <<stateListening, isListening, timeoutRef, timers, onScan,
                   listeners, effectDeps, mounted, histVars>>

ClearCode ==
    /\ scannedCode' = <<>>
    /\ evt' = Step("clear")
    /\ out' = NoCall
    /\ UNCHANGED <<stateListening, isListening, bufferRef, timeoutRef, timers,
                   onScan, listeners, effectDeps, mounted, histVars>>

(* A render of the host component: commits the queued isListening and the  *)
(* onScan argument of this render (handleKeyDown is memoised on onScan).   *)
(* React flushes the passive effects of the previous commit first.  A host *)
(* that passes a callback passes one at every render.                      *)
Render(newOnScan) ==
    /\ EffectsFlushed
    /\ (newOnScan = Undefined) = (onScan = Undefined)
    /\ isListening' = stateListening
    /\ onScan' = newOnScan
    /\ <<isListening', onScan'>> # <<isListening, onScan>>
    /\ evt' = Step("render")
    /\ out' = NoCall
    /\ UNCHANGED <<scannedCode, stateListening, bufferRef, timeoutRef, timers,
                   listeners, effectDeps, mounted, histVars>>

(* The passive effect after a commit whose dependencies changed: cleanup   *)
(* of the previous run, then the new run.                                  *)
RunEffect ==
    /\ ~EffectsFlushed
    /\ LET removed == listeners \ {effectDeps[2]} IN
       listeners' = IF isListening THEN removed \cup {onScan} ELSE removed
    /\ timers' = CleanupTimers(timers, timeoutRef)
    /\ effectDeps' = <<isListening, onScan>>
    /\ evt' = Step("effect")
    /\ out' = NoCall
    /\ UNCHANGED <<scannedCode, stateListening, isListening, bufferRef,
                   timeoutRef, onScan, mounted, histVars>>

(* Removal of the host component.  React runs the effect cleanups in the   *)
(* order of declaration: the hook's cleanup (listener removed, timer       *)
(* cancelled), then the Scan page's cleanup, which calls stopListening().  *)
Unmount ==
    /\ mounted
    /\ EffectsFlushed
    /\ mounted' = FALSE
    /\ listeners' = listeners \ {effectDeps[2]}
    /\ timers' = ClearIfSet(CleanupTimers(timers, timeoutRef), timeoutRef)
    /\ stateListening' = FALSE
    /\ bufferRef' = StopBuffer(bufferRef)
    /\ stale' = IF bufferRef' = <<>> THEN FALSE ELSE stale
    /\ bufOld' = (bufferRef' # <<>>)
    /\ burst' = <<>>
    /\ burstOk' = TRUE
    /\ dropped' = (dropped \/ bufferRef # <<>>)
    /\ mix' = "clean"
    /\ evt' = Step(IF DOMAIN timers # {} THEN "unmountMidBurst" ELSE "unmount")
    /\ out' = NoCall
    /\ UNCHANGED <<scannedCode, isListening, timeoutRef, onScan, effectDeps,
                   sinceKey>>

(* The identity of Scan.handleScan after an error path of the page: the    *)
(* catch blocks only raise a toast (or set the camera error and toggle     *)
(* cameraActive), inventory is not set, so the callback is not recreated.  *)
HandleScanOnError_Fresh(id) == IF id = 1 THEN 2 ELSE 1

HandleScanOnError(id) == id

(* A collaborator's error path and the re-render its message causes. *)
CollaboratorError ==
    /\ EffectsFlushed
    /\ onScan' = HandleScanOnError(onScan)
    /\ isListening' = stateListening
    /\ evt' = Step("error")
    /\ out' = NoCall
    /\ UNCHANGED <<scannedCode, stateListening, bufferRef, timeoutRef, timers,
                   listeners, effectDeps, mounted, histVars>>

(* Passage of time, up to the next timer deadline. *)
MinLeft == IF DOMAIN timers = {}
           THEN TickStep
           ELSE LET m == CHOOSE h \in DOMAIN timers :
                            \A g \in DOMAIN timers : timers[h] <= timers[g]
                IN Min(TickStep, timers[m])

Tick ==
    /\ NoTimerDue
    /\ DOMAIN timers # {} \/ sinceKey < Late
    /\ timers' = [h \in DOMAIN timers |-> timers[h] - MinLeft]
    /\ sinceKey' = Min(sinceKey + MinLeft, Late)
    /\ stale' = (stale \/ (bufferRef # <<>> /\ sinceKey' > FlushDelay))
    /\ evt' = Step("tick")
    /\ out' = NoCall
    /\ UNCHANGED <<scannedCode, stateListening, isListening, bufferRef,
                   timeoutRef, onScan, listeners, effectDeps, mounted, bufOld,
                   burst, burstOk, dropped, mix>>

Next ==
    \/ mounted /\ StartListening /\ UNCHANGED <<authVars, camVars, procVars, pairVars>>
    \/ mounted /\ StopListening /\ UNCHANGED <<authVars, camVars, procVars, pairVars>>
    \/ mounted /\ ClearCode /\ UNCHANGED <<authVars, camVars, procVars, pairVars>>
    \/ mounted /\ (\E f \in OnScanIds : Render(f)) /\ UNCHANGED <<authVars, camVars, procVars, pairVars>>
    \/ mounted /\ RunEffect /\ UNCHANGED <<authVars, camVars, procVars, pairVars>>
    \/ mounted /\ CollaboratorError /\ UNCHANGED <<authVars, camVars, procVars, pairVars>>
    \/ mounted /\ (\E key \in Keys, target \in Targets : KeyDown(key, target))
               /\ UNCHANGED <<authVars, camVars, procVars, pairVars>>
    \/ mounted /\ (\E h \in DOMAIN timers : TimerFire(h)) /\ UNCHANGED <<authVars, camVars, procVars, pairVars>>
    \/ mounted /\ Tick /\ UNCHANGED <<authVars, camVars, procVars, pairVars>>
    \/ Unmount /\ UNCHANGED <<authVars, camVars, procVars, pairVars>>

Spec == Init /\ [][Next]_vars

----------------------------------------------------------------------------
(* The auth provider: login, logout, and the mount effect that restores a  *)
(* stored user after a page load.                                          *)

(* login(userData, remember): only the selected scope is written. *)
Login(u, remember) ==
    /\ ~authLoading
    /\ authUser' = u
    /\ IF remember
          THEN localStore' = JSONStringify(u) /\ UNCHANGED sessionStore
          ELSE sessionStore' = JSONStringify(u) /\ UNCHANGED localStore
    /\ authEvt' = AuthStep("login", u, remember)
    /\ authLast' = [user |-> u, valid |-> TRUE]
    /\ UNCHANGED authLoading

(* logout(): the user is dropped and both scopes are cleared. *)
Logout ==
    /\ ~authLoading
    /\ authUser' = NoUser
    /\ localStore' = NoItem
    /\ sessionStore' = NoItem
    /\ authEvt' = AuthStep("logout", NoUser, FALSE)
    /\ authLast' = [user |-> NoUser, valid |-> TRUE]
    /\ UNCHANGED authLoading

(* A page load in the same browser session: the provider is constructed    *)
(* afresh, both storage scopes survive.                                    *)
AuthReload ==
    /\ ~authLoading
    /\ authUser' = NoUser
    /\ authLoading' = TRUE
    /\ authEvt' = AuthStep("reload", NoUser, FALSE)
    /\ UNCHANGED <<localStore, sessionStore, authLast>>

(* The browser session ends and a new one loads the page: sessionStorage   *)
(* starts empty, localStorage survives.                                    *)
AuthSessionEnd ==
    /\ ~authLoading
    /\ authUser' = NoUser
    /\ authLoading' = TRUE
    /\ sessionStore' = NoItem
    /\ authEvt' = AuthStep("sessionEnd", NoUser, FALSE)
    /\ authLast' = [user |-> NoUser, valid |-> FALSE]
    /\ UNCHANGED localStore

(* The mount effect: localStorage wins over sessionStorage. *)
AuthMountEffect ==
    /\ authLoading
    /\ LET storedUser == IF localStore # NoItem THEN localStore
                                                ELSE sessionStore
       IN  IF storedUser # NoItem
             THEN IF CanParse(storedUser)
                    THEN /\ authUser' = JSONParse(storedUser)
                         /\ UNCHANGED <<localStore, sessionStore>>
                    ELSE /\ localStore' = NoItem
                         /\ sessionStore' = NoItem
                         /\ UNCHANGED authUser
             ELSE UNCHANGED <<authUser, localStore, sessionStore>>
    /\ authLoading' = FALSE
    /\ authEvt' = AuthStep("mount", authUser', FALSE)
    /\ UNCHANGED authLast

InitAuth == Init /\ onScan = Undefined

NextAuth ==
    \/ (\E u \in Users, remember \in BOOLEAN : Login(u, remember))
           /\ UNCHANGED <<scanVars, camVars, procVars, pairVars>>
    \/ Logout /\ UNCHANGED <<scanVars, camVars, procVars, pairVars>>
    \/ AuthReload /\ UNCHANGED <<scanVars, camVars, procVars, pairVars>>
    \/ AuthSessionEnd /\ UNCHANGED <<scanVars, camVars, procVars, pairVars>>
    \/ AuthMountEffect /\ UNCHANGED <<scanVars, camVars, procVars, pairVars>>

SpecAuth == InitAuth /\ [][NextAuth]_vars

----------------------------------------------------------------------------
(* The camera scanner.  Html5Qrcode instances are records in scanners;     *)
(* start() and stop() settle in later steps.  stop() on an instance that   *)
(* is not scanning throws, which stopScanner swallows.                     *)

SetState(scs, s, st) == [scs EXCEPT ![s].state = st]

Running(s) == s \in DOMAIN scanners /\ scanners[s].state = "running"

(* stopScanner(): returns <<scannerRef, scanners>> after the call.  With   *)
(* fast the promise of stop() has settled before anything else runs, so    *)
(* the continuation has already set scannerRef to null.                    *)
StopScanner(ref, scs, fast) ==
    IF ref # NoScanner /\ scs[ref].state = "running"
      THEN IF fast THEN <<NoScanner, SetState(scs, ref, "stopped")>>
                   ELSE <<ref, SetState(scs, ref, "stopping")>>
      ELSE <<ref, scs>>

(* handleScan(code) of the render that closed over inventory version ver:  *)
(* the item found, or none.  The first inventory is the empty array.       *)
FindItem(ver, code) ==
    IF ver >= 1 /\ code \in 1..NumItems THEN code ELSE NoItemSelected

(* handleToggle: the button of CameraScanner. *)
CamToggle ==
    /\ camError' = IF ~camIsActive THEN "" ELSE camError
    /\ cameraActive' = ~camIsActive
    /\ pageDirty' = (pageDirty \/ cameraActive' # cameraActive)
    /\ camEvt' = CamStep(IF camIsActive THEN "toggleOff" ELSE "toggleOn",
                         NoScanner, 0, 0)
    /\ UNCHANGED <<camIsActive, inventoryVer, handleScanVer, selectedItem,
                   camEffectPending, camEffectRan, scannerRef, scanners>>

(* fetchInventory resolves: setInventory with a new array. *)
FetchDone ==
    /\ inventoryVer < MaxFetch
    /\ inventoryVer' = inventoryVer + 1
    /\ pageDirty' = TRUE
    /\ camEvt' = CamStep("fetched", NoScanner, 0, 0)
    /\ UNCHANGED <<cameraActive, camIsActive, handleScanVer, selectedItem,
                   camEffectPending, camEffectRan, scannerRef, scanners,
                   camError>>

(* Any other state update of the page (typing an amount, a keyboard scan). *)
PageStateChange ==
    /\ ~pageDirty
    /\ pageDirty' = TRUE
    /\ camEvt' = CamStep("update", NoScanner, 0, 0)
    /\ UNCHANGED <<cameraActive, camIsActive, inventoryVer, handleScanVer,
                   selectedItem, camEffectPending, camEffectRan, scannerRef,
                   scanners, camError>>

(* Scan renders: handleScan is rebuilt when inventory changed, and         *)
(* handleCameraToggle is a new function on every render, so startScanner   *)
(* changes identity and the CameraScanner effect is due again.  React      *)
(* flushes the effects of the previous commit before it renders again.     *)
PageRender ==
    /\ pageDirty
    /\ ~camEffectPending
    /\ pageDirty' = FALSE
    /\ camIsActive' = cameraActive
    /\ handleScanVer' = inventoryVer
    /\ camEffectPending' = TRUE
    /\ camEvt' = CamStep("render", NoScanner, 0, 0)
    /\ UNCHANGED <<cameraActive, inventoryVer, selectedItem, camEffectRan,
                   scannerRef, scanners, camError>>

(* The CameraScanner effect: the cleanup of the previous run, then the     *)
(* body, whose microtask creates the scanner and calls start().            *)
CamRunEffect(fast) ==
    /\ camEffectPending
    /\ LET cleaned == IF camEffectRan
                        THEN StopScanner(scannerRef, scanners, fast)
                        ELSE <<scannerRef, scanners>>
       IN  IF camIsActive
             THEN /\ Len(cleaned[2]) < MaxScanners
                  /\ scanners' = Append(cleaned[2],
                                    [state |-> "starting",
                                     cb |-> handleScanVer,
                                     decoded |-> FALSE])
                  /\ scannerRef' = Len(cleaned[2]) + 1
                  /\ camEvt' = CamStep("effectStart", Len(cleaned[2]) + 1,
                                       handleScanVer, 0)
             ELSE LET stopped == StopScanner(cleaned[1], cleaned[2], fast)
                  IN  /\ scannerRef' = stopped[1]
                      /\ scanners' = stopped[2]
                      /\ camEvt' = CamStep("effectStop", scannerRef, 0, 0)
    /\ camEffectPending' = FALSE
    /\ camEffectRan' = TRUE
    /\ UNCHANGED <<cameraActive, camIsActive, pageDirty, inventoryVer,
                   handleScanVer, selectedItem, camError>>

(* scanner.start() resolves. *)
StartOk(s) ==
    /\ scanners[s].state = "starting"
    /\ scanners' = SetState(scanners, s, "running")
    /\ camEvt' = CamStep("started", s, scanners[s].cb, 0)
    /\ UNCHANGED <<cameraActive, camIsActive, pageDirty, inventoryVer,
                   handleScanVer, selectedItem, camEffectPending,
                   camEffectRan, scannerRef, camError>>

(* scanner.start() rejects: the catch block records the error and calls    *)
(* the onToggle of the render that built startScanner, where cameraActive  *)
(* was true.                                                               *)
StartFail(s) ==
    /\ scanners[s].state = "starting"
    /\ scanners' = SetState(scanners, s, "failed")
    /\ camError' = "Failed to start camera"
    /\ cameraActive' = FALSE
    /\ pageDirty' = (pageDirty \/ cameraActive)
    /\ camEvt' = CamStep("startFailed", s, scanners[s].cb, 0)
    /\ UNCHANGED <<camIsActive, inventoryVer, handleScanVer, selectedItem,
                   camEffectPending, camEffectRan, scannerRef>>

(* await scannerRef.current.stop() resumes: scannerRef.current = null. *)
StopDone(s) ==
    /\ scanners[s].state = "stopping"
    /\ scanners' = SetState(scanners, s, "stopped")
    /\ scannerRef' = NoScanner
    /\ camEvt' = CamStep("stopped", s, scanners[s].cb, 0)
    /\ UNCHANGED <<cameraActive, camIsActive, pageDirty, inventoryVer,
                   handleScanVer, selectedItem, camEffectPending,
                   camEffectRan, camError>>

(* A running scanner decodes a frame: onScan(decodedText), nothing else. *)
Decode(s, code) ==
    /\ scanners[s].state = "running"
    /\ LET item == FindItem(scanners[s].cb, code)
       IN  IF item # NoItemSelected
             THEN /\ selectedItem' = item
                  /\ pageDirty' = (pageDirty \/ selectedItem # item)
             ELSE UNCHANGED <<selectedItem, pageDirty>>
    /\ scanners' = [scanners EXCEPT ![s].decoded = TRUE]
    /\ camEvt' = CamStep("decode", s, scanners[s].cb, code)
    /\ UNCHANGED <<cameraActive, camIsActive, inventoryVer, handleScanVer,
                   camEffectPending, camEffectRan, scannerRef, camError>>

InitCamera == Init /\ onScan = Undefined

NextCamera ==
    \/ CamToggle /\ UNCHANGED <<scanVars, authVars, procVars, pairVars>>
    \/ FetchDone /\ UNCHANGED <<scanVars, authVars, procVars, pairVars>>
    \/ PageStateChange /\ UNCHANGED <<scanVars, authVars, procVars, pairVars>>
    \/ PageRender /\ UNCHANGED <<scanVars, authVars, procVars, pairVars>>
    \/ (\E fast \in BOOLEAN : CamRunEffect(fast))
           /\ UNCHANGED <<scanVars, authVars, procVars, pairVars>>
    \/ (\E s \in DOMAIN scanners : StartOk(s))
           /\ UNCHANGED <<scanVars, authVars, procVars, pairVars>>
    \/ (\E s \in DOMAIN scanners : StartFail(s))
           /\ UNCHANGED <<scanVars, authVars, procVars, pairVars>>
    \/ (\E s \in DOMAIN scanners : StopDone(s))
           /\ UNCHANGED <<scanVars, authVars, procVars, pairVars>>
    \/ (\E s \in DOMAIN scanners, code \in Codes : Decode(s, code))
           /\ UNCHANGED <<scanVars, authVars, procVars, pairVars>>

SpecCamera == InitCamera /\ [][NextCamera]_vars

----------------------------------------------------------------------------
(* The scan-and-process form of the Scan page.  State updates made in the  *)
(* click and change handlers are rendered before the next event.           *)

AmountRejected_NaNOnly(str) == ParseInt(str).nan

(* isNaN(amountNum) || amountNum < 1 *)
AmountRejected(str) == ParseInt(str).nan \/ ParseInt(str).val < 1

(* scanMode === "out" && amountNum > (selectedItem.item_quantity || 0) *)
QuantityRejected(mode, n, q) == mode = "out" /\ n > QtyOrZero(q)

ButtonDisabled_IgnoresProcessing(amt, processing) == amt = <<>>

(* disabled={!amount || isProcessing} *)
ButtonDisabled(amt, processing) == amt = <<>> \/ processing

(* finally { setIsProcessing(false) } : the flag after the call settled. *)
SettleFlag(outcome) == FALSE

(* The first fetchInventory of the page resolves. *)
ProcFetch ==
    /\ inventoryVer = 0
    /\ inventoryVer' = 1
    /\ procEvt' = ProcStep("fetched", NoItemSelected)
    /\ UNCHANGED <<selectedItem, knownQty, amount, scanMode, isProcessing,
                   request, lateScan>>

(* handleScan(code), from the keyboard interpreter or the camera. *)
PageScan(code, q) ==
    /\ LET item == FindItem(inventoryVer, code)
       IN  IF item # NoItemSelected
             THEN /\ selectedItem' = item
                  /\ knownQty' = q
                  /\ amount' = <<>>
                  /\ lateScan' = IF request.phase # "none" THEN item
                                                          ELSE lateScan
                  /\ procEvt' = ProcStep("scan", NoItemSelected)
             ELSE /\ procEvt' = ProcStep("scanMiss", NoItemSelected)
                  /\ UNCHANGED <<selectedItem, knownQty, amount, lateScan>>
    /\ UNCHANGED <<inventoryVer, scanMode, isProcessing, request>>

(* onChange of the amount input, shown while an item is selected. *)
TypeAmount(str) ==
    /\ selectedItem # NoItemSelected
    /\ amount' = str
    /\ procEvt' = ProcStep("type", NoItemSelected)
    /\ UNCHANGED <<inventoryVer, selectedItem, knownQty, scanMode,
                   isProcessing, request, lateScan>>

(* onValueChange of the mode tabs. *)
SetMode(mode) ==
    /\ mode # scanMode
    /\ scanMode' = mode
    /\ procEvt' = ProcStep("mode", NoItemSelected)
    /\ UNCHANGED <<inventoryVer, selectedItem, knownQty, amount,
                   isProcessing, request, lateScan>>

(* The Cancel button. *)
Cancel ==
    /\ selectedItem # NoItemSelected
    /\ selectedItem' = NoItemSelected
    /\ knownQty' = NoQty
    /\ amount' = <<>>
    /\ lateScan' = NoItemSelected
    /\ procEvt' = ProcStep("cancel", NoItemSelected)
    /\ UNCHANGED <<inventoryVer, scanMode, isProcessing, request>>

(* A click on the process button: handleProcess up to its first await. *)
ClickProcess ==
    /\ selectedItem # NoItemSelected
    /\ ~ButtonDisabled(amount, isProcessing)
    /\ IF selectedItem = NoItemSelected \/ amount = <<>>
         THEN /\ procEvt' = ProcStep("rejectedEmpty", NoItemSelected)
              /\ UNCHANGED <<isProcessing, request>>
         ELSE IF AmountRejected(amount)
         THEN /\ procEvt' = ProcStep("rejectedAmount", NoItemSelected)
              /\ UNCHANGED <<isProcessing, request>>
         ELSE IF QuantityRejected(scanMode, ParseInt(amount).val, knownQty)
         THEN /\ procEvt' = ProcStep("rejectedQuantity", NoItemSelected)
              /\ UNCHANGED <<isProcessing, request>>
         ELSE /\ isProcessing' = TRUE
              /\ request' = [phase  |-> "sent",
                             mode   |-> scanMode,
                             amount |-> ParseInt(amount).val,
                             item   |-> selectedItem]
              /\ procEvt' = ProcStep("sent", NoItemSelected)
    /\ UNCHANGED <<inventoryVer, selectedItem, knownQty, amount, scanMode,
                   lateScan>>

(* The scan-in/scan-out call settles.  On success handleProcess goes on to *)
(* await fetchInventory(); otherwise the finally block ends it.            *)
Respond(outcome) ==
    /\ request.phase = "sent"
    /\ IF outcome = "success"
         THEN /\ request' = [request EXCEPT !.phase = "refreshing"]
              /\ procEvt' = ProcStep("succeeded", NoItemSelected)
              /\ UNCHANGED <<isProcessing, lateScan>>
         ELSE /\ request' = NoRequest
              /\ isProcessing' = SettleFlag(outcome)
              /\ procEvt' = ProcStep(outcome, lateScan)
              /\ lateScan' = NoItemSelected
    /\ UNCHANGED <<inventoryVer, selectedItem, knownQty, amount, scanMode>>

(* The refresh after a successful call settles (fetchInventory swallows    *)
(* its own failure); then the form is cleared and the finally block runs.  *)
(* The inventory version saturates at MaxFetch.                            *)
RefreshDone(ok) ==
    /\ request.phase = "refreshing"
    /\ inventoryVer' = IF ok /\ inventoryVer < MaxFetch
                         THEN inventoryVer + 1 ELSE inventoryVer
    /\ selectedItem' = NoItemSelected
    /\ knownQty' = NoQty
    /\ amount' = <<>>
    /\ request' = NoRequest
    /\ isProcessing' = SettleFlag("refreshed")
    /\ procEvt' = ProcStep("refreshed", lateScan)
    /\ lateScan' = NoItemSelected
    /\ UNCHANGED scanMode

InitProcess == Init /\ onScan = Undefined

NextProcess ==
    \/ ProcFetch /\ UNCHANGED <<scanVars, authVars, camOnlyVars, pairVars>>
    \/ (\E code \in Codes, q \in Quantities : PageScan(code, q))
           /\ UNCHANGED <<scanVars, authVars, camOnlyVars, pairVars>>
    \/ (\E str \in AmountInputs : TypeAmount(str))
           /\ UNCHANGED <<scanVars, authVars, camOnlyVars, pairVars>>
    \/ (\E mode \in {"in", "out"} : SetMode(mode))
           /\ UNCHANGED <<scanVars, authVars, camOnlyVars, pairVars>>
    \/ Cancel /\ UNCHANGED <<scanVars, authVars, camOnlyVars, pairVars>>
    \/ ClickProcess /\ UNCHANGED <<scanVars, authVars, camOnlyVars, pairVars>>
    \/ (\E outcome \in {"success", "failed", "threw"} : Respond(outcome))
           /\ UNCHANGED <<scanVars, authVars, camOnlyVars, pairVars>>
    \/ (\E ok \in BOOLEAN : RefreshDone(ok))
           /\ UNCHANGED <<scanVars, authVars, camOnlyVars, pairVars>>

SpecProcess == InitProcess /\ [][NextProcess]_vars

----------------------------------------------------------------------------
(* Two interpreters on one page.  Each call of the hook has its own state  *)
(* and refs; the window's keydown stream and the timers of the event loop  *)
(* are shared.  Here the render that follows setIsListening is folded into *)
(* the setter, and the effect runs as a later step.                        *)

TimerRefs(hs) == {hs[i].timeoutRef : i \in Instances}

UniqueHandle_Reused(ts, hs) ==
    CHOOSE h \in 1..(Cardinality(DOMAIN ts) + 1) : h \notin DOMAIN ts

(* The handle setTimeout returns: timer ids grow, so a new handle equals   *)
(* no live timer and no handle an interpreter still holds.                 *)
UniqueHandle(ts, hs) ==
    CHOOSE h \in 1..(2 * Cardinality(Instances) + 1) :
        h \notin DOMAIN ts /\ h \notin TimerRefs(hs)

(* handleKeyDown of interpreter i on the pair <<hooks, timers>>. *)
PairHandle(st, i, key, target) ==
    LET hs      == st[1]
        ts      == st[2]
        me      == hs[i]
        cleared == HandlerClear(ts, me.timeoutRef)
        h       == UniqueHandle(cleared, hs)
    IN  IF IsEditableTarget(target) THEN st
        ELSE IF key = EnterKey
        THEN IF EnterEmits(me.bufferRef)
               THEN << [hs EXCEPT ![i].scannedCode = EmittedCode(me.bufferRef),
                                  ![i].bufferRef = <<>>], cleared >>
               ELSE << hs, cleared >>
        ELSE << [hs EXCEPT ![i].bufferRef =
                              IF IsAlnumKey(key)
                                THEN AppendKey(me.bufferRef, key)
                                ELSE me.bufferRef,
                           ![i].timeoutRef = h],
                [x \in (DOMAIN cleared) \cup {h} |->
                    IF x = h THEN [left |-> FlushDelay, owner |-> i]
                             ELSE cleared[x]] >>

(* The event is dispatched to every attached handler, in order. *)
RECURSIVE PairDispatch(_, _, _, _)
PairDispatch(st, todo, key, target) ==
    IF todo = {} THEN st
    ELSE LET i == CHOOSE x \in todo : \A y \in todo : x <= y
         IN  PairDispatch(IF st[1][i].attached
                            THEN PairHandle(st, i, key, target) ELSE st,
                          todo \ {i}, key, target)

PairKeyDown(key, target) ==
    /\ \E i \in Instances : hooks[i].attached
    /\ \A h \in DOMAIN pairTimers : pairTimers[h].left > 0
    /\ \A i \in Instances :
          (hooks[i].attached /\ IsAlnumKey(key)) =>
              Len(hooks[i].bufferRef) < MaxBuf
    /\ LET st == PairDispatch(<<hooks, pairTimers>>, Instances, key, target)
       IN  hooks' = st[1] /\ pairTimers' = st[2]
    /\ pairEvt' = PairStep(IF IsEditableTarget(target) THEN "keyIgnored"
                           ELSE IF key = EnterKey THEN "keyEnter" ELSE "key",
                           0)

PairTimerFire(h) ==
    /\ pairTimers[h].left = 0
    /\ hooks' = [hooks EXCEPT ![pairTimers[h].owner].bufferRef = <<>>]
    /\ pairTimers' = ClearTimeout(pairTimers, h)
    /\ pairEvt' = PairStep("fire", pairTimers[h].owner)

PairStart(i) ==
    /\ ~hooks[i].isListening
    /\ hooks' = [hooks EXCEPT ![i].isListening = TRUE]
    /\ pairEvt' = PairStep("start", i)
    /\ UNCHANGED pairTimers

PairStop(i) ==
    /\ hooks' = [hooks EXCEPT ![i].isListening = FALSE,
                              ![i].bufferRef = StopBuffer(hooks[i].bufferRef)]
    /\ pairTimers' = ClearIfSet(pairTimers, hooks[i].timeoutRef)
    /\ pairEvt' = PairStep("stop", i)

PairClearCode(i) ==
    /\ hooks[i].scannedCode # <<>>
    /\ hooks' = [hooks EXCEPT ![i].scannedCode = <<>>]
    /\ pairEvt' = PairStep("clear", i)
    /\ UNCHANGED pairTimers

(* The attach/cleanup effect of interpreter i after isListening changed. *)
PairEffect(i) ==
    /\ hooks[i].attached # hooks[i].isListening
    /\ hooks' = [hooks EXCEPT ![i].attached = hooks[i].isListening]
    /\ pairTimers' = CleanupTimers(pairTimers, hooks[i].timeoutRef)
    /\ pairEvt' = PairStep("effect", i)

(* Time passes up to the next timer that falls due. *)
PairTick ==
    /\ DOMAIN pairTimers # {}
    /\ \A h \in DOMAIN pairTimers : pairTimers[h].left > 0
    /\ pairTimers' = [h \in DOMAIN pairTimers |->
                        [pairTimers[h] EXCEPT !.left = @ - TickStep]]
    /\ pairEvt' = PairStep("tick", 0)
    /\ UNCHANGED hooks

InitPair == Init /\ onScan = Undefined

NextPair ==
    \/ (\E i \in Instances : PairStart(i))
           /\ UNCHANGED <<scanVars, authVars, camVars, procVars>>
    \/ (\E i \in Instances : PairStop(i))
           /\ UNCHANGED <<scanVars, authVars, camVars, procVars>>
    \/ (\E i \in Instances : PairClearCode(i))
           /\ UNCHANGED <<scanVars, authVars, camVars, procVars>>
    \/ (\E i \in Instances : PairEffect(i))
           /\ UNCHANGED <<scanVars, authVars, camVars, procVars>>
    \/ (\E key \in PairKeys, target \in PairTargets : PairKeyDown(key, target))
           /\ UNCHANGED <<scanVars, authVars, camVars, procVars>>
    \/ (\E h \in DOMAIN pairTimers : PairTimerFire(h))
           /\ UNCHANGED <<scanVars, authVars, camVars, procVars>>
    \/ PairTick /\ UNCHANGED <<scanVars, authVars, camVars, procVars>>

SpecPair == InitPair /\ [][NextPair]_vars

----------------------------------------------------------------------------
(* Properties of the keystroke interpreter. *)

AllAlnum(str) == \A i \in 1..Len(str) : str[i] \in AlnumClass

EditableByContract(target) ==
    \/ target.tagName \in {"INPUT", "TEXTAREA"}
    \/ target.isContentEditable

(* C1: a burst of alphanumeric keydowns that starts on an empty buffer,    *)
(* is handled while the interpreter is active, has every gap under the     *)
(* flush delay and ends with Enter, emits exactly the concatenation of     *)
(* its keys in arrival order, as scannedCode and as the onScan argument.   *)
C1_BurstConcatenation ==
    (evt.type = "keyEnter" /\ out.covered) =>
        /\ out.emitted
        /\ out.code = out.burst
        /\ scannedCode = out.burst
        /\ (onScan # Undefined => out.called)

C1_Witness ==
    /\ evt.type = "keyEnter"
    /\ out.covered
    /\ out.called
    /\ out.code = <<"a", "7">>
    /\ scannedCode = <<"a", "7">>

(* C2: once more than the flush delay has passed since the last accepted   *)
(* key, the idle-flush timer has fired and pending is empty, so keys from  *)
(* before the gap cannot appear in a later code.                           *)
C2_GapFlushesPending ==
    sinceKey > FlushDelay => bufferRef = <<>>

(* C3: an emitted code never holds a character that was followed by a gap  *)
(* of the flush delay or more, and its Enter came within the flush delay.  *)
C3_OnlyFreshCharacters ==
    out.emitted => (~out.stale /\ ~out.late)

(* C4: no emitted code holds a character received before the latest        *)
(* stopListening(): the fragment a stop discards is never replayed.        *)
C4_StopDiscardsFragment ==
    out.emitted => ~out.old

C4_Witness ==
    /\ evt.type = "keyEnter"
    /\ out.emitted
    /\ out.afterDrop
    /\ Active

(* C5: a keydown whose target is an INPUT, a TEXTAREA or content-editable  *)
(* changes nothing: pending, timer, scannedCode and active stay as they    *)
(* were and onScan is not invoked.                                         *)
C5_EditableTargetIgnored ==
    [][EditableByContract(evt'.target) =>
          /\ UNCHANGED <<bufferRef, timers, timeoutRef, scannedCode,
                         isListening, stateListening>>
          /\ ~out'.emitted
          /\ ~out'.called]_vars

C5_Witness ==
    /\ evt.type = "keyIgnored"
    /\ evt.target.tagName = "TEXTAREA"
    /\ bufferRef # <<>>
    /\ DOMAIN timers # {}

(* C6: Enter on an empty pending emits nothing: scannedCode is kept,       *)
(* onScan is not invoked, pending stays empty and no timer is scheduled.   *)
C6_BareEnterEmitsNothing ==
    [][(evt'.type = "keyEnter" /\ bufferRef = <<>>) =>
          /\ scannedCode' = scannedCode
          /\ ~out'.emitted
          /\ ~out'.called
          /\ bufferRef' = <<>>
          /\ DOMAIN timers' = {}]_vars

C6_Witness ==
    /\ evt.type = "keyEnter"
    /\ ~out.emitted
    /\ scannedCode # <<>>
    /\ bufferRef = <<>>
    /\ DOMAIN timers = {}

(* C7: pending is empty whenever the interpreter is not listening.         *)
C7_InactiveMeansEmpty ==
    ~isListening => bufferRef = <<>>

(* C8: once stopListening() has taken effect (state committed, effect      *)
(* cleanup run) the handler is detached, pending is empty and no flush     *)
(* timer is scheduled.                                                     *)
C8_StoppedIsClean ==
    (~stateListening /\ ~isListening /\ EffectsFlushed) =>
        /\ listeners = {}
        /\ bufferRef = <<>>
        /\ DOMAIN timers = {}

(* C9: at most one flush timer is scheduled at any time.                   *)
C9_SingleTimer ==
    Cardinality(DOMAIN timers) <= 1

C9_Witness ==
    /\ out.rearmed
    /\ Cardinality(DOMAIN timers) = 1
    /\ timers[timeoutRef] = FlushDelay

(* C10: pending holds only ASCII letters and digits, and every emitted     *)
(* code is a non-empty string of ASCII letters and digits.                 *)
C10_AlnumOnly ==
    /\ AllAlnum(bufferRef)
    /\ AllAlnum(scannedCode)
    /\ out.emitted => (out.code # <<>> /\ AllAlnum(out.code))

C10_Witness ==
    /\ evt.type = "keyOther"
    /\ bufferRef = <<"a", "7">>

(* C11: a burst that starts on an empty buffer, is handled while active    *)
(* with every gap under the flush delay and ends with Enter, emits the     *)
(* subsequence of its single-character alphanumeric keys in order; other   *)
(* keys in the burst are dropped.                                          *)
C11_NonAlnumDropped ==
    (evt.type = "keyEnter" /\ out.coveredMixed) =>
        /\ out.emitted
        /\ out.code = out.burst
        /\ scannedCode = out.burst

C11_Witness ==
    /\ evt.type = "keyEnter"
    /\ out.coveredMixed
    /\ out.inside
    /\ out.emitted
    /\ out.code = <<"a", "7">>

(* C12: clearCode() empties scannedCode and leaves active, pending and the *)
(* flush timer as they were; a burst in progress still emits its full code *)
(* on Enter.                                                               *)
C12_ClearCodeFrame ==
    /\ [][evt'.type = "clear" =>
            /\ scannedCode' = <<>>
            /\ UNCHANGED <<stateListening, isListening, bufferRef, timers,
                           timeoutRef, listeners>>]_vars
    /\ []((evt.type = "keyEnter" /\ out.covered) =>
            (out.emitted /\ out.code = out.burst))

C12_Witness ==
    /\ evt.type = "clear"
    /\ scannedCode = <<>>
    /\ bufferRef # <<>>
    /\ DOMAIN timers # {}
    /\ Active

(* C13: startListening() while already active changes nothing; while       *)
(* inactive it makes the interpreter active, and once that has taken       *)
(* effect exactly one handler is attached.                                 *)
C13_StartIdempotent ==
    /\ [][evt'.type \in {"start", "startAgain"} =>
            /\ stateListening'
            /\ stateListening => UNCHANGED hookVars]_vars
    /\ []((mounted /\ stateListening /\ isListening /\ EffectsFlushed) =>
            listeners = {onScan})
    /\ [](Cardinality(listeners) <= 1)

C13_Witness ==
    /\ evt.type = "startAgain"
    /\ Active
    /\ EffectsFlushed
    /\ listeners = {onScan}
    /\ bufferRef # <<>>
    /\ DOMAIN timers # {}

(* C14: scannedCode changes only when an Enter completes a scan (to that   *)
(* scan's code) or when clearCode() is called (to empty): it is always the *)
(* latest completed scan, or empty.                                        *)
C14_LatestScan ==
    [][/\ out'.emitted => scannedCode' = out'.code
       /\ evt'.type = "clear" => scannedCode' = <<>>
       /\ (~out'.emitted /\ evt'.type # "clear") =>
              scannedCode' = scannedCode]_vars

C14_Witness ==
    /\ evt.type = "fire"
    /\ scannedCode = <<"7", "7">>
    /\ bufferRef = <<>>

(* C16: an error path of a collaborator leaves pending, the flush timer,   *)
(* active, scannedCode and the attached handler as they were.              *)
C16_ErrorLeavesInterpreter ==
    [][evt'.type = "error" =>
          UNCHANGED <<bufferRef, timers, timeoutRef, stateListening,
                      scannedCode, listeners, onScan>>]_vars

C16_Witness ==
    /\ evt.type = "error"
    /\ Active
    /\ EffectsFlushed
    /\ bufferRef # <<>>
    /\ DOMAIN timers # {}
    /\ scannedCode # <<>>

(* C18: Enter on a non-empty pending sets scannedCode to pending, calls    *)
(* onScan (when supplied) once with that string, clears pending, and       *)
(* schedules no timer; Enter is not appended.                              *)
C18_EnterCompletesScan ==
    [][(evt'.type = "keyEnter" /\ bufferRef # <<>>) =>
          /\ scannedCode' = bufferRef
          /\ out'.emitted
          /\ out'.code = bufferRef
          /\ out'.called = (onScan # Undefined)
          /\ bufferRef' = <<>>
          /\ timeoutRef' = timeoutRef
          /\ DOMAIN timers' = {}]_vars

C18_Witness ==
    /\ evt.type = "keyEnter"
    /\ out.emitted
    /\ out.called
    /\ out.rearmed = FALSE
    /\ scannedCode = <<"7", "a">>
    /\ bufferRef = <<>>
    /\ DOMAIN timers = {}

(* C19: a keydown handler is attached only while the interpreter is        *)
(* listening, and the handler processes no key while it is not.            *)
C19_AttachedOnlyWhileActive ==
    /\ listeners # {} => isListening
    /\ evt.type \in {"keyChar", "keyOther", "keyEnter"} => isListening

(* C20: after every teardown (a stop that has taken effect, or removal of  *)
(* the host) no listener is attached and no flush timer is pending.        *)
TornDown ==
    \/ ~mounted
    \/ (~stateListening /\ ~isListening /\ EffectsFlushed)

C20_TeardownLeavesNothing ==
    TornDown => (listeners = {} /\ DOMAIN timers = {})

C20_Witness ==
    /\ evt.type = "unmountMidBurst"
    /\ ~mounted
    /\ dropped
    /\ listeners = {}
    /\ DOMAIN timers = {}

(* C21: a non-Enter key that is not a single alphanumeric character,      *)
(* handled on a non-editable target, leaves pending unchanged, cancels the *)
(* scheduled flush timer and schedules a new one of the full flush delay.  *)
C21_OtherKeyRearmsTimer ==
    [][(evt'.type \in {"keyChar", "keyOther"} /\ out'.nonAlnum) =>
          /\ bufferRef' = bufferRef
          /\ DOMAIN timers' = {timeoutRef'}
          /\ timers'[timeoutRef'] = FlushDelay]_vars

C21_Witness ==
    /\ evt.type = "keyOther"
    /\ out.nonAlnum
    /\ out.rearmed
    /\ bufferRef # <<>>
    /\ DOMAIN timers = {timeoutRef}
    /\ timers[timeoutRef] = FlushDelay

(* C22: the active flag becomes true only in startListening() and false    *)
(* only in stopListening() (which the host also calls when it unmounts);   *)
(* no key, Enter completion, timer firing or clearCode() changes it.       *)
C22_ActiveOnlyByStartStop ==
    [][(stateListening' # stateListening) =>
          \/ (evt'.type = "start" /\ stateListening')
          \/ (evt'.type \in {"stop", "unmount", "unmountMidBurst"}
                 /\ ~stateListening')]_vars

C22_Witness ==
    /\ evt.type = "fire"
    /\ Active
    /\ listeners = {onScan}
    /\ scannedCode = <<"a">>

(* C24: whenever pending is non-empty a flush timer is scheduled, also     *)
(* after the handler was re-attached because onScan changed identity.      *)
C24_PendingHasTimer ==
    bufferRef # <<>> => DOMAIN timers # {}

----------------------------------------------------------------------------
(* Properties of the auth provider. *)

SelectedScope == IF authEvt.remember THEN localStore ELSE sessionStore

OtherScope == IF authEvt.remember THEN sessionStore ELSE localStore

(* C15: after login(user, remember) the current user is that user and the  *)
(* serialized record of that user is held in the scope selected by         *)
(* remember and not in the other scope.                                    *)
C15_RecordInSelectedScopeOnly ==
    authEvt.type = "login" =>
        /\ authUser = authEvt.user
        /\ SelectedScope = JSONStringify(authEvt.user)
        /\ OtherScope # JSONStringify(authEvt.user)

----------------------------------------------------------------------------
(* Properties of the camera scanner. *)

(* Nothing asynchronous is outstanding: no render, effect, start or stop. *)
CamSettled ==
    /\ ~pageDirty
    /\ ~camEffectPending
    /\ \A s \in DOMAIN scanners :
           scanners[s].state \notin {"starting", "stopping"}

(* C17: a decode is forwarded and leaves the scanner running; a scanner    *)
(* that has decoded keeps running until the camera is deactivated; and     *)
(* whenever the camera is active and everything has settled, a scanner is  *)
(* running and forwards to the page's current handleScan.                  *)
C17_CameraKeepsRunning ==
    /\ [][camEvt'.type = "decode" =>
            scanners'[camEvt'.scanner].state = "running"]_vars
    /\ [][\A s \in DOMAIN scanners :
            (/\ scanners[s].decoded
             /\ scanners[s].state = "running"
             /\ scanners'[s].state # "running") => ~camIsActive]_vars
    /\ []((CamSettled /\ camIsActive) =>
            \E s \in DOMAIN scanners :
                Running(s) /\ scanners[s].cb = handleScanVer)

----------------------------------------------------------------------------
(* C25: a mount of the auth provider after a page reload in the same       *)
(* browser session restores exactly the user of the most recent login, or  *)
(* no user when logout() was the most recent call.                         *)
C25_ReloadRestoresLastLogin ==
    (authEvt.type = "mount" /\ authLast.valid) => authUser = authLast.user

RunningScanners == {s \in DOMAIN scanners : Running(s)}

(* C26: once every pending render, effect, start and stop has settled, a   *)
(* scanner runs only if isActive is true, at most one scanner runs, and    *)
(* the running scanner is the one held in scannerRef.                      *)
C26_SettledScannerIsTheRef ==
    CamSettled =>
        /\ RunningScanners # {} => camIsActive
        /\ Cardinality(RunningScanners) <= 1
        /\ \A s \in RunningScanners : scannerRef = s

(* C30: a failed start records the error and switches the camera off; the  *)
(* error is cleared only by the user activating the camera; and while the  *)
(* error stands, once everything has settled the camera is inactive with   *)
(* no scanner running.                                                     *)
C30_FailedStartEndsInactive ==
    /\ [][camEvt'.type = "startFailed" =>
            (camError' # "" /\ ~cameraActive')]_vars
    /\ [][(camError # "" /\ camError' = "") =>
            camEvt'.type = "toggleOn"]_vars
    /\ []((camError # "" /\ CamSettled) =>
            (~camIsActive /\ RunningScanners = {}))

----------------------------------------------------------------------------
(* Properties of the scan-and-process form. *)

(* C27: every request sent carries an integer amount of at least 1, and a  *)
(* scan-out request never exceeds the quantity of the selected item as the *)
(* page knows it (missing counts as 0); a rejected click sends nothing and *)
(* leaves selectedItem, amount and isProcessing unchanged.                 *)
C27_OnlyValidRequests ==
    /\ [][procEvt'.type = "sent" =>
            /\ request'.amount \in Nat
            /\ request'.amount >= 1
            /\ request'.mode = "out" =>
                   request'.amount <= QtyOrZero(knownQty)]_vars
    /\ [][procEvt'.type \in {"rejectedEmpty", "rejectedAmount",
                              "rejectedQuantity"} =>
            UNCHANGED <<selectedItem, amount, isProcessing, request>>]_vars

C27_Witness ==
    /\ procEvt.type = "rejectedQuantity"
    /\ scanMode = "out"
    /\ knownQty = NoQty
    /\ amount = <<"1">>
    /\ request = NoRequest
    /\ ~isProcessing

(* C28: a request is sent only while none is in flight and isProcessing is *)
(* false; isProcessing is true exactly while a request or its refresh is   *)
(* outstanding, so it is false again after success, success=false or a     *)
(* throw.                                                                  *)
C28_OneRequestInFlight ==
    /\ [][procEvt'.type = "sent" =>
            (~isProcessing /\ request.phase = "none")]_vars
    /\ [](isProcessing <=> request.phase # "none")

C28_Witness ==
    /\ procEvt.type = "threw"
    /\ ~isProcessing
    /\ request = NoRequest
    /\ selectedItem # NoItemSelected

(* C29: an item selected by a scan while a request was in flight is still  *)
(* the selected item once the request and its refresh have settled.        *)
C29_LateScanKept ==
    (procEvt.type \in {"refreshed", "failed", "threw"}
        /\ procEvt.late # NoItemSelected) => selectedItem = procEvt.late

----------------------------------------------------------------------------
(* Properties of two interpreters side by side. *)

OwnTimers(ts, i) == {<<h, ts[h].left>> : h \in {x \in DOMAIN ts : ts[x].owner = i}}

(* C23: start, stop, clearCode, an effect or a timer firing of one         *)
(* interpreter leaves the other's state and timer unchanged; a key event   *)
(* leaves an interpreter that is not attached unchanged; and an Enter      *)
(* gives each attached interpreter the code of its own pending only.       *)
C23_InstancesIndependent ==
    [][\A j \in Instances :
         /\ (pairEvt'.inst \notin {0, j}) =>
               /\ hooks'[j] = hooks[j]
               /\ OwnTimers(pairTimers', j) = OwnTimers(pairTimers, j)
         /\ (pairEvt'.type \in {"key", "keyEnter", "keyIgnored"}
                /\ ~hooks[j].attached) =>
               /\ hooks'[j] = hooks[j]
               /\ OwnTimers(pairTimers', j) = OwnTimers(pairTimers, j)
         /\ (pairEvt'.type = "keyEnter" /\ hooks[j].attached) =>
               /\ hooks'[j].scannedCode =
                     IF hooks[j].bufferRef # <<>> THEN hooks[j].bufferRef
                                                  ELSE hooks[j].scannedCode
               /\ hooks'[j].isListening = hooks[j].isListening]_vars

C23_Witness ==
    /\ pairEvt = PairStep("stop", 1)
    /\ hooks[1].bufferRef = <<>>
    /\ hooks[2].attached
    /\ hooks[2].bufferRef = <<"a">>
    /\ hooks[2].scannedCode = <<"a", "a">>
    /\ OwnTimers(pairTimers, 2) # {}
    /\ hooks[1].timeoutRef \notin {NoTimer, hooks[2].timeoutRef}

====
